---- MODULE Spec2Model ----
(***************************************************************************)
(* Round timer and persistent alert of the Padel Tournament Manager        *)
(* (src/js/timer.js, src/js/audio-utils.js).                               *)
(*                                                                         *)
(* The page is single threaded: every handler (a button click, an interval *)
(* or timeout callback) runs to completion, so each handler is one action. *)
(* The handlers are written as operators from a state record to a state    *)
(* record, so that a handler that calls another one (start calls           *)
(* updateTimerDisplay, which calls showPersistentAlert, which calls        *)
(* clearPersistentAlert) is the composition of the operators.              *)
(*                                                                         *)
(* Time is the wall clock Date.now() in milliseconds.  The browser's timer *)
(* table holds, for every live interval and every pending timeout, the     *)
(* milliseconds left until it is due.  A due callback may run late (the    *)
(* clock may move on before it runs), never early.                         *)
(***************************************************************************)
EXTENDS Integers, Sequences, FiniteSets, TLC

(***************************************************************************)
(* Program constants.                                                      *)
(***************************************************************************)
NORMAL_TIMER_LIMIT == 600
TEST_TIMER_LIMIT == 15
MAX_SNOOZES == 3
TICK_MS == 1000
ALERT_REPEAT_MS == 3000
SNOOZE_MS == 30000
TOAST_MS == 3000
WAVE2_MS == 1000
VIB2_MS == 1500
LONG_PATTERN == 3
OK_STATUS == 200
NOT_FOUND == 404

(***************************************************************************)
(* Bounds of the model.                                                    *)
(***************************************************************************)
\* Date.now() when the page is loaded (any positive number of milliseconds).
PageLoadTime == 1000
\* How many times the clock is moved forward in one behaviour.
MaxAdvances == 4
\* The same, in a session in which rounds are finished.
MaxRoundAdvances == 3
\* ... in a session in which capabilities are missing
MaxCapsAdvances == 2
\* ... and in the example session, where it moves from callback to callback
MaxExampleAdvances == 70
\* Number of rounds of the tournament (currentRoundIndex is in 0..MaxRounds-1).
MaxRounds == 2
\* How many times saveTournamentData is called in one behaviour.
MaxSaves == 2
\* Notification objects constructed in one behaviour.
MaxNotifications == 2
\* Calls of Notification.requestPermission() that wait for their answer.
MaxRequests == 1
\* Fetch events the service worker handles in one behaviour.
MaxFetchEvents == 2
\* Most live intervals, and most pending timeouts, the timer table holds.
MaxIntervals == 3
MaxTimeouts == 8

\* null of JavaScript for timestamps and timer ids (both are falsy, like 0).
NULL == 0
\* A hole of the sparse array roundDurations (undefined).
Hole == 0 - 1
\* activeAlert === null
NoAlert == "null"
\* The text of a statistics field before any handler wrote it.
Unwritten == ""

Rounds == 0 .. (MaxRounds - 1)

\* The amounts by which the clock is moved: the delays the program itself uses.
Delays == {TICK_MS, TEST_TIMER_LIMIT * 1000, SNOOZE_MS}
\* The same, in a session in which rounds are finished.
RoundDelays == {TICK_MS}

VARIABLES
    now,                \* Date.now()
    timerInterval,      \* timer.js:7
    roundStartTime,     \* timer.js:8
    roundDurations,     \* timer.js:10
    isPaused,           \* timer.js:11
    isTestMode,         \* timer.js:14
    activeAlert,        \* timer.js:19 (the modal: "test" or "normal" by its title)
    alertInterval,      \* timer.js:20
    modals,             \* DOM: number of .persistent-alert containers in document.body
    snoozeCount,        \* timer.js:21
    currentRoundIndex,  \* owned by the rest of the application
    intervals,          \* browser: live intervals {[id, fn, left]}
    timeouts,           \* browser: pending timeouts, a bag of [fn, src, left, n]
    timerDisplay,       \* text of #timerDisplay
    avgRoundTime,       \* text of #avgRoundTime
    activeBtn,          \* which of the start/pause buttons has class 'active'
    saveCalls,          \* calls of saveTournamentData so far
    notificationPermission, \* notifications.js:10
    activeNotification, \* notifications.js:11 (the id of the Notification object, NULL for null)
    permission,         \* browser: Notification.permission
    notificationBtn,    \* DOM: the #notificationBtn button: "none", "enabled" or "disabled"
    asking,             \* browser: calls of Notification.requestPermission() not yet answered
    shown,              \* browser: the notifications on display, {[id, title]}
    created,            \* browser: Notification objects constructed so far
    capable,            \* browser: which of "audio", "vibrate", "notify" work
    firstStart,         \* history: Date.now() at the first start since the last reset
    chain,              \* history: Snooze presses since the alert was last raised by a tick or dismissed
    raises,             \* history: alerts raised by updateTimerDisplay since the last reset (2 = two or more)
    sawPause,           \* history: the clock moved while the round was paused, since the last reset
    dismissed,          \* history: an alert was dismissed and updateTimerDisplay has raised none since
    advances,           \* history: how often the clock was moved
    lastOp,             \* history: the handler that ran last
    worker,             \* service worker: "parsed", "installed", "activating", "activated", "redundant"
    stores,             \* CacheStorage: store name -> the resources that have a copy in it
    doomed,             \* caches.delete calls of the activate listeners not yet carried out
    fetchEvent,         \* the fetch event being handled, or the last one handled
    fetchCount,         \* fetch events so far
    preexisting         \* history: the names of the stores there were before the worker was installed

vars == << now, timerInterval, roundStartTime, roundDurations, isPaused, isTestMode,
           activeAlert, alertInterval, modals, snoozeCount, currentRoundIndex, intervals,
           timeouts, timerDisplay, avgRoundTime, activeBtn, saveCalls,
           notificationPermission, activeNotification, permission, notificationBtn,
           asking, shown, created, capable, firstStart,
           chain, raises, sawPause, dismissed, advances, lastOp,
           worker, stores, doomed, fetchEvent, fetchCount, preexisting >>

\* The state of the page.
pageVars ==
    << now, timerInterval, roundStartTime, roundDurations, isPaused, isTestMode,
       activeAlert, alertInterval, modals, snoozeCount, currentRoundIndex, intervals,
       timeouts, timerDisplay, avgRoundTime, activeBtn, saveCalls,
       notificationPermission, activeNotification, permission, notificationBtn,
       asking, shown, created, capable, firstStart,
       chain, raises, sawPause, dismissed, advances, lastOp >>

\* The state of the service worker and of its caches.
workerVars == << worker, stores, doomed, fetchEvent, fetchCount, preexisting >>

\* The current state as one record; the handlers below map such records.
Cur ==
    [ now |-> now, timerInterval |-> timerInterval, roundStartTime |-> roundStartTime,
      roundDurations |-> roundDurations, isPaused |-> isPaused, isTestMode |-> isTestMode,
      activeAlert |-> activeAlert, alertInterval |-> alertInterval, modals |-> modals,
      snoozeCount |-> snoozeCount, currentRoundIndex |-> currentRoundIndex,
      intervals |-> intervals, timeouts |-> timeouts, timerDisplay |-> timerDisplay,
      avgRoundTime |-> avgRoundTime, activeBtn |-> activeBtn, saveCalls |-> saveCalls,
      notificationPermission |-> notificationPermission,
      activeNotification |-> activeNotification, permission |-> permission,
      notificationBtn |-> notificationBtn, asking |-> asking, shown |-> shown,
      created |-> created, capable |-> capable,
      firstStart |-> firstStart, chain |-> chain, raises |-> raises,
      sawPause |-> sawPause, dismissed |-> dismissed,
      advances |-> advances, lastOp |-> lastOp ]

(***************************************************************************)
(* Bags of pending timeouts (the program keeps no id of a timeout).        *)
(***************************************************************************)
EmptyBag == << >>

BagAdd(b, e) ==
    IF e \in DOMAIN b THEN [b EXCEPT ![e] = @ + 1] ELSE b @@ (e :> 1)

BagRemove(b, e) ==
    IF b[e] = 1 THEN [x \in (DOMAIN b) \ {e} |-> b[x]] ELSE [b EXCEPT ![e] = @ - 1]

RECURSIVE SumOver(_, _)
SumOver(f, S) ==
    IF S = {} THEN 0
    ELSE LET x == CHOOSE y \in S : TRUE IN f[x] + SumOver(f, S \ {x})

BagSize(b) == SumOver(b, DOMAIN b)

\* The bag b with every element e replaced by F(e).
BagMap(b, F(_)) ==
    LET img == {F(e) : e \in DOMAIN b}
    IN  [x \in img |-> SumOver(b, {e \in DOMAIN b : F(e) = x})]

(***************************************************************************)
(* The browser's timers.                                                   *)
(***************************************************************************)
\* setInterval returns an id no live interval has.
FreshId(tbl) ==
    CHOOSE i \in 1 .. (Cardinality(tbl) + 1) : \A t \in tbl : t.id # i

setInterval(s, id, fn, ms) ==
    [s EXCEPT !.intervals = @ \cup {[id |-> id, fn |-> fn, left |-> ms]}]

clearInterval(s, id) ==
    [s EXCEPT !.intervals = {t \in @ : t.id # id}]

\* src is history, it tells where a callback comes from.  Of a second wave:
\* "alert" when playAlertSound of the alert now on screen scheduled it, "gone"
\* once that alert was cleared, "page" otherwise.  Of a snooze timeout: "chain"
\* when the latest Snooze press of the current chain scheduled it, "stale"
\* otherwise.  n is the count a snooze toast shows, 0 otherwise.  at is
\* history too: Date.now() at the call of setTimeout.  mode is history of a
\* snooze timeout: the mode of the alert that was snoozed.
setTimeoutOf(s, fn, src, ms, n, mode) ==
    [s EXCEPT !.timeouts =
        BagAdd(@, [fn |-> fn, src |-> src, left |-> ms, n |-> n, at |-> s.now,
                   mode |-> mode])]

setTimeout(s, fn, src, ms, n) == setTimeoutOf(s, fn, src, ms, n, NoAlert)

(***************************************************************************)
(* notifications.js.                                                       *)
(***************************************************************************)
Capabilities == {"audio", "vibrate", "notify"}

Permissions == {"default", "granted", "denied"}

\* initNotifications: the flag and the permission button after it.
initNotifications(p) ==
    [ notificationPermission |-> (p = "granted"),
      notificationBtn |-> IF p # "granted" /\ p # "denied" THEN "enabled" ELSE "none" ]

\* notification.close(): closing a notification that is no longer on display
\* does nothing.
closeNotification(s, id) ==
    [s EXCEPT !.shown = {n \in @ : n.id # id}]

\* new Notification(title, options) throws where the constructor does not
\* work (the catch block logs it).  The model does not use the 'tag' option,
\* by which a browser may replace a notification on its own.
\* showNotification without the test of notificationPermission.
showNotification_NoCheck(s, title) ==
    LET s1 == IF s.activeNotification # NULL
              THEN closeNotification(s, s.activeNotification)
              ELSE s
    IN  IF "notify" \notin s1.capable THEN s1
        ELSE LET id == s1.created + 1
             IN  [s1 EXCEPT !.created = id,
                            !.shown = @ \cup {[id |-> id, title |-> title]},
                            !.activeNotification = id]

\* showNotification without the close of the notification before.
showNotification_NoClose(s, title) ==
    IF ~s.notificationPermission THEN s
    ELSE IF "notify" \notin s.capable THEN s
    ELSE LET id == s.created + 1
         IN  [s EXCEPT !.created = id,
                       !.shown = @ \cup {[id |-> id, title |-> title]},
                       !.activeNotification = id]

showNotification(s, title) ==
    LET s1 == IF s.activeNotification # NULL
              THEN closeNotification(s, s.activeNotification)
              ELSE s
    IN  IF ~s1.notificationPermission THEN s1
        ELSE IF "notify" \notin s1.capable THEN s1
        ELSE LET id == s1.created + 1
             IN  [s1 EXCEPT !.created = id,
                            !.shown = @ \cup {[id |-> id, title |-> title]},
                            !.activeNotification = id]

showTimerNotification(s, testMode) ==
    showNotification(s, IF testMode THEN "test" ELSE "normal")

\* requestNotificationPermission, after the await: the answer of the browser.
permissionAnswered(s, answer) ==
    IF answer = "granted"
    THEN showNotification([s EXCEPT !.notificationPermission = TRUE,
                                    !.notificationBtn =
                                        IF @ # "none" THEN "disabled" ELSE @],
                          "enabled")
    ELSE s

(***************************************************************************)
(* audio-utils.js.  A tone or a vibration changes no state of the page;    *)
(* what stays behind is the delayed second wave each of them schedules.    *)
(***************************************************************************)
\* Where the audio context cannot be made the catch block is all that runs.
playTimerSound(s, action, src) ==
    IF "audio" \notin s.capable THEN s
    ELSE IF action = "buzzer" THEN setTimeout(s, "wave2", src, WAVE2_MS, 0) ELSE s

\* Where navigator.vibrate is missing or throws nothing is scheduled.
vibratePhone(s, patternLength, src) ==
    IF "vibrate" \notin s.capable THEN s
    ELSE IF patternLength > LONG_PATTERN THEN setTimeout(s, "vib2", src, VIB2_MS, 0) ELSE s

(***************************************************************************)
(* timer.js: statistics and display.                                       *)
(***************************************************************************)
\* n.toString().padStart(2, '0')
Pad2(n) == IF n < 10 THEN "0" \o ToString(n) ELSE ToString(n)

\* `${minutes.padStart}:${seconds.padStart}` of a duration of ms milliseconds
\* that is the quotient num / den (the mean of the durations is no integer).
ClockText(num, den) ==
    Pad2(num \div (den * 60000)) \o ":" \o Pad2((num \div (den * 1000)) % 60)

\* roundDurations.filter(d => d > 0): filter skips the holes of the array.
completedRounds(durations) == {i \in Rounds : durations[i] > 0}

updateTimerStats(s) ==
    LET done == completedRounds(s.roundDurations)
        sum  == SumOver(s.roundDurations, done)
    IN  [s EXCEPT !.avgRoundTime =
            IF Cardinality(done) > 0 THEN ClockText(sum, Cardinality(done)) ELSE "--:--"]

\* History: a chain of snoozes ends (the alert is dismissed, or a tick raises a
\* new alert); the re-raise it left pending is no longer the chain's.
EndChain(s) ==
    LET Stale(e) == IF e.src = "chain" THEN [e EXCEPT !.src = "stale"] ELSE e
    IN  [s EXCEPT !.chain = 0, !.timeouts = BagMap(@, Stale)]

\* if (activeAlert) { ... }.  Callbacks the cleared alert had scheduled stay
\* in the timer table: only the repeat interval is cancelled.
clearPersistentAlert(s) ==
    IF s.activeAlert # NoAlert
    THEN LET s1 == IF s.alertInterval # NULL
                   THEN [clearInterval(s, s.alertInterval) EXCEPT !.alertInterval = NULL]
                   ELSE s
             Gone(e) == IF e.src = "alert" THEN [e EXCEPT !.src = "gone"] ELSE e
         IN  [s1 EXCEPT !.activeAlert = NoAlert,
                        !.modals = @ - 1,
                        !.snoozeCount = 0,
                        !.timeouts = BagMap(@, Gone)]
    ELSE s

\* playAlertSound, the closure of showPersistentAlert
playAlertSound(s) ==
    vibratePhone(playTimerSound(s, "buzzer", "alert"), 5, "alert")

\* showPersistentAlert without the clearPersistentAlert it begins with.
showPersistentAlert_NoClear(s, testMode) ==
    LET s2 == [s EXCEPT !.modals = @ + 1,
                        !.activeAlert = IF testMode THEN "test" ELSE "normal"]
        s3 == playAlertSound(s2)
        id == FreshId(s3.intervals)
    IN  [setInterval(s3, id, "alert", ALERT_REPEAT_MS) EXCEPT !.alertInterval = id]

\* showPersistentAlert that installs the repeat only where a tone can play.
showPersistentAlert_NeedsAudio(s, testMode) ==
    LET s1 == clearPersistentAlert(s)
        s2 == [s1 EXCEPT !.modals = @ + 1,
                         !.activeAlert = IF testMode THEN "test" ELSE "normal"]
        s3 == playAlertSound(s2)
        id == FreshId(s3.intervals)
    IN  IF "audio" \in s.capable
        THEN [setInterval(s3, id, "alert", ALERT_REPEAT_MS) EXCEPT !.alertInterval = id]
        ELSE s3

showPersistentAlert(s, testMode) ==
    LET s1 == clearPersistentAlert(s)
        s2 == [s1 EXCEPT !.modals = @ + 1,
                         !.activeAlert = IF testMode THEN "test" ELSE "normal"]
        s3 == playAlertSound(s2)
        id == FreshId(s3.intervals)
    IN  [setInterval(s3, id, "alert", ALERT_REPEAT_MS) EXCEPT !.alertInterval = id]

\* const timerLimitSeconds = isTestMode ? TEST_TIMER_LIMIT : NORMAL_TIMER_LIMIT
timerLimitSeconds(testMode) ==
    IF testMode THEN TEST_TIMER_LIMIT ELSE NORMAL_TIMER_LIMIT

\* updateTimerDisplay that raises the alert whenever the limit is reached or
\* passed.
updateTimerDisplay_AtLeast(s) ==
    IF s.roundStartTime = NULL THEN s
    ELSE
    LET elapsed == s.now - s.roundStartTime
        minutes == elapsed \div 60000
        seconds == (elapsed % 60000) \div 1000
        s1 == [s EXCEPT !.timerDisplay = Pad2(minutes) \o ":" \o Pad2(seconds)]
        totalSeconds == minutes * 60 + seconds
        s2 == IF totalSeconds >= timerLimitSeconds(s.isTestMode) /\ s.timerInterval # NULL
              THEN LET a == showPersistentAlert(s1, s.isTestMode)
                       n == showTimerNotification(a, s.isTestMode)
                       b == vibratePhone(playTimerSound(n, "buzzer", "page"), 5, "page")
                   IN  EndChain([b EXCEPT !.raises = IF @ < 2 THEN @ + 1 ELSE 2,
                                          !.dismissed = FALSE])
              ELSE s1
    IN  updateTimerStats(s2)

updateTimerDisplay(s) ==
    IF s.roundStartTime = NULL THEN s
    ELSE
    LET elapsed == s.now - s.roundStartTime
        minutes == elapsed \div 60000
        seconds == (elapsed % 60000) \div 1000
        s1 == [s EXCEPT !.timerDisplay = Pad2(minutes) \o ":" \o Pad2(seconds)]
        totalSeconds == minutes * 60 + seconds
        s2 == IF totalSeconds = timerLimitSeconds(s.isTestMode) /\ s.timerInterval # NULL
              THEN LET a == showPersistentAlert(s1, s.isTestMode)
                       n == showTimerNotification(a, s.isTestMode)
                       b == vibratePhone(playTimerSound(n, "buzzer", "page"), 5, "page")
                   IN  EndChain([b EXCEPT !.raises = IF @ < 2 THEN @ + 1 ELSE 2,
                                          !.dismissed = FALSE])
              ELSE s1
    IN  updateTimerStats(s2)

(***************************************************************************)
(* timer.js: the round timer.                                              *)
(***************************************************************************)
\* startRoundTimer with the start time taken anew at every start.
startRoundTimer_Restamp(s) ==
    LET s1 == [s EXCEPT !.roundStartTime = s.now,
                        !.firstStart = IF @ = NULL THEN s.now ELSE @,
                        !.isPaused = FALSE]
        s2 == IF s1.timerInterval # NULL THEN clearInterval(s1, s1.timerInterval) ELSE s1
        id == FreshId(s2.intervals)
        s3 == [setInterval(s2, id, "tick", TICK_MS) EXCEPT
                  !.timerInterval = id, !.activeBtn = "start"]
        s4 == vibratePhone(playTimerSound(s3, "start", "page"), 1, "page")
    IN  updateTimerDisplay(s4)

\* startRoundTimer without the clearInterval of the previous tick.
startRoundTimer_Leak(s) ==
    LET s1 == [s EXCEPT !.roundStartTime = IF @ = NULL THEN s.now ELSE @,
                        !.firstStart = IF @ = NULL THEN s.now ELSE @,
                        !.isPaused = FALSE]
        id == FreshId(s1.intervals)
        s3 == [setInterval(s1, id, "tick", TICK_MS) EXCEPT
                  !.timerInterval = id, !.activeBtn = "start"]
        s4 == vibratePhone(playTimerSound(s3, "start", "page"), 1, "page")
    IN  updateTimerDisplay(s4)

startRoundTimer(s) ==
    LET s1 == [s EXCEPT !.roundStartTime = IF @ = NULL THEN s.now ELSE @,
                        !.firstStart = IF @ = NULL THEN s.now ELSE @,
                        !.isPaused = FALSE]
        s2 == IF s1.timerInterval # NULL THEN clearInterval(s1, s1.timerInterval) ELSE s1
        id == FreshId(s2.intervals)
        s3 == [setInterval(s2, id, "tick", TICK_MS) EXCEPT
                  !.timerInterval = id, !.activeBtn = "start"]
        s4 == vibratePhone(playTimerSound(s3, "start", "page"), 1, "page")
    IN  updateTimerDisplay(s4)

pauseRoundTimer(s) ==
    LET s1 == [s EXCEPT !.isPaused = TRUE]
        s2 == IF s1.timerInterval # NULL
              THEN [clearInterval(s1, s1.timerInterval) EXCEPT !.timerInterval = NULL]
              ELSE s1
        s3 == [s2 EXCEPT !.activeBtn = "pause"]
    IN  vibratePhone(playTimerSound(s3, "pause", "page"), 3, "page")

\* resetRoundTimer that takes the alert down as well.
resetRoundTimer_ClearsAlert(s) ==
    LET s1 == IF s.timerInterval # NULL
              THEN [clearInterval(s, s.timerInterval) EXCEPT !.timerInterval = NULL]
              ELSE s
        s2 == [s1 EXCEPT !.roundStartTime = NULL, !.isPaused = FALSE,
                         !.activeBtn = "none", !.timerDisplay = "00:00",
                         !.firstStart = NULL, !.raises = 0, !.sawPause = FALSE]
    IN  updateTimerStats(clearPersistentAlert(s2))

resetRoundTimer(s) ==
    LET s1 == IF s.timerInterval # NULL
              THEN [clearInterval(s, s.timerInterval) EXCEPT !.timerInterval = NULL]
              ELSE s
        s2 == [s1 EXCEPT !.roundStartTime = NULL, !.isPaused = FALSE,
                         !.activeBtn = "none", !.timerDisplay = "00:00",
                         !.firstStart = NULL, !.raises = 0, !.sawPause = FALSE]
    IN  updateTimerStats(s2)

saveTournamentData(s) == [s EXCEPT !.saveCalls = @ + 1]

\* finishRound that writes the duration at index 0 instead of
\* currentRoundIndex.
finishRound_FirstIndex(s) ==
    IF s.roundStartTime # NULL
    THEN LET roundDuration == s.now - s.roundStartTime
             s1 == [s EXCEPT !.roundDurations[0] = roundDuration]
             s2 == pauseRoundTimer(s1)
             s3 == vibratePhone(playTimerSound(s2, "finish", "page"), 5, "page")
         IN  saveTournamentData(updateTimerStats(s3))
    ELSE s

\* finishRound that forgets the start of the round it has recorded.
finishRound_Forgets(s) ==
    IF s.roundStartTime # NULL
    THEN LET roundDuration == s.now - s.roundStartTime
             s1 == [s EXCEPT !.roundDurations[s.currentRoundIndex] = roundDuration]
             s2 == pauseRoundTimer(s1)
             s3 == vibratePhone(playTimerSound(s2, "finish", "page"), 5, "page")
         IN  [saveTournamentData(updateTimerStats(s3)) EXCEPT !.roundStartTime = NULL]
    ELSE s

finishRound(s) ==
    IF s.roundStartTime # NULL
    THEN LET roundDuration == s.now - s.roundStartTime
             s1 == [s EXCEPT !.roundDurations[s.currentRoundIndex] = roundDuration]
             s2 == pauseRoundTimer(s1)
             s3 == vibratePhone(playTimerSound(s2, "finish", "page"), 5, "page")
         IN  saveTournamentData(updateTimerStats(s3))
    ELSE s

\* toggleTestMode without the reset of the timer.
toggleTestMode_NoReset(s) ==
    updateTimerStats([s EXCEPT !.isTestMode = ~@])

toggleTestMode(s) ==
    resetRoundTimer([s EXCEPT !.isTestMode = ~@])

\* snoozeAlert that re-raises the alert after the delay of the toast.
snoozeAlert_Early(s) ==
    LET s1 == [s EXCEPT !.snoozeCount = @ + 1,
                        !.chain = IF @ <= MAX_SNOOZES THEN @ + 1 ELSE @]
    IN  IF s1.snoozeCount > MAX_SNOOZES
        THEN clearPersistentAlert(s1)
        ELSE LET s2 == clearPersistentAlert(s1)
                 s3 == setTimeout(s2, "toast", "page", TOAST_MS, s2.snoozeCount)
                 s4 == [EndChain(s3) EXCEPT !.chain = s3.chain]
             IN  setTimeoutOf(s4, "snooze", "chain", TOAST_MS, 0, s.activeAlert)

snoozeAlert(s) ==
    LET s1 == [s EXCEPT !.snoozeCount = @ + 1,
                        !.chain = IF @ <= MAX_SNOOZES THEN @ + 1 ELSE @]
    IN  IF s1.snoozeCount > MAX_SNOOZES
        THEN clearPersistentAlert(s1)
        ELSE LET s2 == clearPersistentAlert(s1)
                 s3 == setTimeout(s2, "toast", "page", TOAST_MS, s2.snoozeCount)
                 s4 == [EndChain(s3) EXCEPT !.chain = s3.chain]
             IN  setTimeoutOf(s4, "snooze", "chain", SNOOZE_MS, 0, s.activeAlert)

(***************************************************************************)
(* Actions: one per handler.                                               *)
(***************************************************************************)
Op(name, src) == [op |-> name, src |-> src]

\* The state s becomes the next state, within the bounds of the model.
Commit(s, op) ==
    /\ Cardinality(s.intervals) <= MaxIntervals
    /\ BagSize(s.timeouts) <= MaxTimeouts
    /\ s.saveCalls <= MaxSaves
    /\ s.created <= MaxNotifications
    /\ now' = s.now
    /\ timerInterval' = s.timerInterval
    /\ roundStartTime' = s.roundStartTime
    /\ roundDurations' = s.roundDurations
    /\ isPaused' = s.isPaused
    /\ isTestMode' = s.isTestMode
    /\ activeAlert' = s.activeAlert
    /\ alertInterval' = s.alertInterval
    /\ modals' = s.modals
    /\ snoozeCount' = s.snoozeCount
    /\ currentRoundIndex' = s.currentRoundIndex
    /\ intervals' = s.intervals
    /\ timeouts' = s.timeouts
    /\ timerDisplay' = s.timerDisplay
    /\ avgRoundTime' = s.avgRoundTime
    /\ activeBtn' = s.activeBtn
    /\ saveCalls' = s.saveCalls
    /\ notificationPermission' = s.notificationPermission
    /\ activeNotification' = s.activeNotification
    /\ permission' = s.permission
    /\ notificationBtn' = s.notificationBtn
    /\ asking' = s.asking
    /\ shown' = s.shown
    /\ created' = s.created
    /\ capable' = s.capable
    /\ firstStart' = s.firstStart
    /\ chain' = s.chain
    /\ raises' = s.raises
    /\ sawPause' = s.sawPause
    /\ dismissed' = s.dismissed
    /\ advances' = s.advances
    /\ lastOp' = op
    /\ UNCHANGED workerVars

\* No fetch event yet.
NoFetch == [phase |-> "none"]

\* The page is loaded in a browser in which Notification.permission is p and
\* the capabilities caps work; DOMContentLoaded has run initNotifications.
InitPage(p, caps) ==
    /\ now = PageLoadTime
    /\ timerInterval = NULL
    /\ roundStartTime = NULL
    /\ roundDurations = [i \in Rounds |-> Hole]
    /\ isPaused = FALSE
    /\ isTestMode = FALSE
    /\ activeAlert = NoAlert
    /\ alertInterval = NULL
    /\ modals = 0
    /\ snoozeCount = 0
    /\ currentRoundIndex = 0
    /\ intervals = {}
    /\ timeouts = EmptyBag
    /\ timerDisplay = Unwritten
    /\ avgRoundTime = Unwritten
    /\ activeBtn = "none"
    /\ saveCalls = 0
    /\ permission = p
    /\ capable = caps
    /\ notificationPermission = initNotifications(p).notificationPermission
    /\ notificationBtn = initNotifications(p).notificationBtn
    /\ activeNotification = NULL
    /\ asking = 0
    /\ shown = {}
    /\ created = 0
    /\ firstStart = NULL
    /\ chain = 0
    /\ raises = 0
    /\ sawPause = FALSE
    /\ dismissed = FALSE
    /\ advances = 0
    /\ lastOp = Op("load", "page")

\* The page, with a service worker that has handled nothing and no cache.
InitWith(p, caps) ==
    /\ InitPage(p, caps)
    /\ worker = "parsed"
    /\ stores = << >>
    /\ doomed = {}
    /\ fetchEvent = NoFetch
    /\ fetchCount = 0
    /\ preexisting = {}

\* A browser in which everything works and notifications were neither granted
\* nor denied.
Init == InitWith("default", Capabilities)

\* Callbacks that are due run before the next click is handled and before the
\* clock moves on: a click that comes before a callback is a click at the
\* instant before.
Due == {t \in intervals : t.left = 0} \cup {e \in DOMAIN timeouts : e.left = 0}

Quiet == Due = {}

\* The second wave of a buzzer tone or of a long vibration, and the removal of
\* a toast, change nothing but the timer table: the order in which the due
\* ones run makes no difference, and they run first.
Inert == {e \in DOMAIN timeouts : e.fn \in {"wave2", "vib2", "toast"} /\ e.left = 0}

\* The buttons of the timer section.
Start == Quiet /\ Commit(startRoundTimer(Cur), Op("start", "page"))

Pause == Quiet /\ Commit(pauseRoundTimer(Cur), Op("pause", "page"))

Reset == Quiet /\ Commit(resetRoundTimer(Cur), Op("reset", "page"))

Finish == Quiet /\ Commit(finishRound(Cur), Op("finish", "page"))

ToggleTestMode == Quiet /\ Commit(toggleTestMode(Cur), Op("toggle", "page"))

\* The rest of the application moves to another round.
ChangeRound ==
    /\ Quiet
    /\ \E i \in Rounds \ {currentRoundIndex} :
          Commit([Cur EXCEPT !.currentRoundIndex = i], Op("round", "page"))

\* History: the user dismissed the alert, which ends the chain of snoozes.
Dismissed(s) == [EndChain(s) EXCEPT !.dismissed = TRUE]

\* The buttons of the alert modal and its backdrop.
Dismiss ==
    /\ Quiet
    /\ activeAlert # NoAlert
    /\ Commit(Dismissed(clearPersistentAlert(Cur)), Op("dismiss", "page"))

Backdrop ==
    /\ Quiet
    /\ activeAlert # NoAlert
    /\ \E confirmed \in BOOLEAN :
          Commit(IF confirmed THEN Dismissed(clearPersistentAlert(Cur)) ELSE Cur,
                 Op("backdrop", IF confirmed THEN "yes" ELSE "no"))

Snooze ==
    /\ Quiet
    /\ activeAlert # NoAlert
    /\ Commit(snoozeAlert(Cur), Op("snooze", "page"))

\* A due interval runs its callback and is due again one period later.
Rearm(s, t, ms) ==
    [s EXCEPT !.intervals = (@ \ {t}) \cup {[t EXCEPT !.left = ms]}]

Tick ==
    \E t \in intervals :
        /\ Inert = {}
        /\ t.fn = "tick" /\ t.left = 0
        /\ Commit(updateTimerDisplay(Rearm(Cur, t, TICK_MS)), Op("tick", "page"))

AlertRepeat ==
    \E t \in intervals :
        /\ Inert = {}
        /\ t.fn = "alert" /\ t.left = 0
        /\ Commit(playAlertSound(Rearm(Cur, t, ALERT_REPEAT_MS)), Op("repeat", "alert"))

\* A due timeout runs its callback once.
Fired(s, e) == [s EXCEPT !.timeouts = BagRemove(@, e)]

SnoozeOver ==
    \E e \in DOMAIN timeouts :
        /\ Inert = {}
        /\ e.fn = "snooze" /\ e.left = 0
        /\ LET s1 == IF e.src = "chain" THEN Cur ELSE EndChain(Cur)
           IN  Commit(showPersistentAlert(Fired(s1, e), isTestMode),
                      [op |-> "snoozeOver", src |-> e.src, mode |-> e.mode])

SecondWave ==
    /\ Inert # {}
    /\ LET e == CHOOSE x \in Inert : TRUE
       IN  Commit(Fired(Cur, e), Op(e.fn, e.src))

\* The clock moves on by d milliseconds.
Later(t, d) == [t EXCEPT !.left = IF @ > d THEN @ - d ELSE 0]

Advance(d) ==
    /\ Quiet
    /\ LET Aged(e) == Later(e, d)
       IN  Commit([Cur EXCEPT !.now = @ + d,
                              !.advances = @ + 1,
                              !.sawPause = @ \/ (isPaused /\ roundStartTime # NULL),
                              !.intervals = {Later(t, d) : t \in @},
                              !.timeouts = BagMap(@, Aged)],
                  Op("advance", "page"))

AdvanceTime == \E d \in Delays : advances < MaxAdvances /\ Advance(d)

\* Every handler of the page.
Next ==
    \/ Start
    \/ Pause
    \/ Reset
    \/ Finish
    \/ ToggleTestMode
    \/ ChangeRound
    \/ Dismiss
    \/ Backdrop
    \/ Snooze
    \/ Tick
    \/ AlertRepeat
    \/ SnoozeOver
    \/ SecondWave
    \/ AdvanceTime

\* The whole page.  Its sessions are checked in two parts, SpecAlert and
\* SpecRounds below.
Spec == Init /\ [][Next]_vars

\* A session in which the alert is snoozed and no round is finished.
NextAlert ==
    \/ Start
    \/ Pause
    \/ Reset
    \/ ToggleTestMode
    \/ Dismiss
    \/ Backdrop
    \/ Snooze
    \/ Tick
    \/ AlertRepeat
    \/ SnoozeOver
    \/ SecondWave
    \/ AdvanceTime

SpecAlert == Init /\ [][NextAlert]_vars

\* A session in which rounds shorter than the time limit are finished.
BriefAdvance == \E d \in RoundDelays : advances < MaxRoundAdvances /\ Advance(d)

NextRounds ==
    \/ Start
    \/ Pause
    \/ Reset
    \/ Finish
    \/ ToggleTestMode
    \/ ChangeRound
    \/ Tick
    \/ SecondWave
    \/ BriefAdvance

SpecRounds == Init /\ [][NextRounds]_vars

\* The permission button: Notification.requestPermission() is called, the
\* browser answers later.
RequestPermission ==
    /\ Quiet
    /\ notificationBtn = "enabled"
    /\ asking < MaxRequests
    /\ Commit([Cur EXCEPT !.asking = @ + 1], Op("ask", "page"))

\* A permission once granted or denied is answered the same way again.
PermissionAnswer ==
    /\ Quiet
    /\ asking > 0
    /\ \E answer \in Permissions :
          /\ permission # "default" => answer = permission
          /\ Commit(permissionAnswered([Cur EXCEPT !.asking = @ - 1,
                                                   !.permission = answer], answer),
                    Op("answer", answer))

\* The user clicks a notification (onclick closes it) or swipes it away.
NotificationClosed ==
    /\ Quiet
    /\ \E n \in shown :
          Commit([Cur EXCEPT !.shown = @ \ {n}], Op("closed", n.title))

\* A session with notifications, in any browser.
InitNotify ==
    \E p \in Permissions, caps \in {Capabilities, Capabilities \ {"notify"}} :
        InitWith(p, caps)

NextNotify ==
    \/ RequestPermission
    \/ PermissionAnswer
    \/ NotificationClosed
    \/ Start
    \/ Reset
    \/ ToggleTestMode
    \/ Dismiss
    \/ Tick
    \/ AlertRepeat
    \/ SecondWave
    \/ AdvanceTime

SpecNotify == InitNotify /\ [][NextNotify]_vars

\* A session in a browser in which any of the capabilities may be missing;
\* the clock moves by the time limit of test mode and by the snooze delay.
\* No round is finished in it: the property checked in it runs finishRound,
\* like every other handler, in each of its states.
InitCaps == \E caps \in SUBSET Capabilities : InitWith("granted", caps)

AlertDelays == {TEST_TIMER_LIMIT * 1000, SNOOZE_MS}

AlertAdvance == \E d \in AlertDelays : advances < MaxCapsAdvances /\ Advance(d)

NextCaps ==
    \/ Start
    \/ Pause
    \/ Reset
    \/ ToggleTestMode
    \/ Dismiss
    \/ Snooze
    \/ Tick
    \/ AlertRepeat
    \/ SnoozeOver
    \/ SecondWave
    \/ AlertAdvance

SpecCaps == InitCaps /\ [][NextCaps]_vars

(***************************************************************************)
(* service-worker.js.  The file registers two listeners for each of        *)
(* install, fetch and activate (it declares CACHE_NAME and urlsToCache      *)
(* twice, lines 1-2 and 53-54, with the same store name); an event runs    *)
(* the listeners in the order of the source.                               *)
(***************************************************************************)
CACHE_NAME == "padel-tournament-v1"

\* Stores that an earlier version of the worker, or other code, left behind.
StoreNames == {CACHE_NAME, "padel-tournament-v0", "other"}

urlsToCache == {"./index.html"}

Resources == urlsToCache \cup {"./data.json"}

\* What a fetch of the network can come back with; NetworkError is a fetch
\* that rejects.
Responses == [status : {OK_STATUS, NOT_FOUND}, type : {"basic", "cors"}]

NetworkError == [status |-> 0, type |-> "error"]

\* A listener that has not called fetch, and one that waits for its fetch.
Unused == [status |-> 0, type |-> "unused"]

Pending == [status |-> 0, type |-> "pending"]

\* caches.match(request) looks in every store.
cachesMatch(st, url) == \E n \in DOMAIN st : url \in st[n]

\* caches.open(name) makes the store if there is none; cache.put / addAll
cachePut(st, name, urls) ==
    IF name \in DOMAIN st THEN [st EXCEPT ![name] = @ \cup urls] ELSE st @@ (name :> urls)

cachesDelete(st, name) == [n \in (DOMAIN st) \ {name} |-> st[n]]

\* !response || response.status !== 200 || response.type !== 'basic'
validResponse(r) == r.status = OK_STATUS /\ r.type = "basic"

\* install: both listeners open CACHE_NAME and add their lists; the worker
\* is installed when every resource could be fetched ...
Install ==
    /\ worker = "parsed"
    /\ worker' = "installed"
    /\ stores' = cachePut(stores, CACHE_NAME, urlsToCache)
    /\ UNCHANGED << doomed, fetchEvent, fetchCount, preexisting >>
    /\ UNCHANGED pageVars

\* ... and is discarded when addAll rejects; the store was opened.
InstallFails ==
    /\ worker = "parsed"
    /\ worker' = "redundant"
    /\ stores' = cachePut(stores, CACHE_NAME, {})
    /\ UNCHANGED << doomed, fetchEvent, fetchCount, preexisting >>
    /\ UNCHANGED pageVars

\* The stores an activate listener deletes, of those caches.keys() names.
\* A variant that deletes every store it finds.
staleStores_All(cacheNames) == cacheNames

staleStores(cacheNames) == {cacheName \in cacheNames : cacheName # CACHE_NAME}

\* activate: each of the two listeners gets caches.keys() and calls
\* caches.delete for the stale ones; the worker is activated when the
\* promises of both are settled.
Activate ==
    /\ worker = "installed"
    /\ doomed' = {[listener |-> l, name |-> n] : l \in {1, 2}, n \in staleStores(DOMAIN stores)}
    /\ worker' = IF doomed' = {} THEN "activated" ELSE "activating"
    /\ UNCHANGED << stores, fetchEvent, fetchCount, preexisting >>
    /\ UNCHANGED pageVars

DeleteStore ==
    /\ worker = "activating"
    /\ \E d \in doomed :
          /\ stores' = cachesDelete(stores, d.name)
          /\ doomed' = doomed \ {d}
    /\ worker' = IF doomed' = {} THEN "activated" ELSE "activating"
    /\ UNCHANGED << fetchEvent, fetchCount, preexisting >>
    /\ UNCHANGED pageVars

\* fetch: both listeners call caches.match.  On a hit the first one answers
\* with the copy and the second one fetches nothing.  On a miss each of them
\* calls fetch; respondWith of the first listener is the one that counts (the
\* second call of respondWith throws, after its promise chain was built).
FetchEvent ==
    /\ worker = "activated"
    /\ fetchEvent.phase # "waiting"
    /\ fetchCount < MaxFetchEvents
    /\ \E url \in Resources :
          LET hit == cachesMatch(stores, url)
          IN  fetchEvent' = [ phase |-> IF hit THEN "done" ELSE "waiting",
                              url |-> url, hit |-> hit,
                              first |-> IF hit THEN Unused ELSE Pending,
                              second |-> IF hit THEN Unused ELSE Pending,
                              put |-> Unused ]
    /\ fetchCount' = fetchCount + 1
    /\ UNCHANGED << worker, stores, doomed, preexisting >>
    /\ UNCHANGED pageVars

\* The fetch of the first listener comes back: its response, or its
\* rejection, is what the page gets.
FirstAnswer ==
    /\ fetchEvent.phase = "waiting"
    /\ fetchEvent.first = Pending
    /\ \E r \in Responses \cup {NetworkError} :
          fetchEvent' = [fetchEvent EXCEPT
                            !.first = r,
                            !.phase = IF fetchEvent.second = Pending THEN "waiting" ELSE "done"]
    /\ UNCHANGED << worker, stores, doomed, fetchCount, preexisting >>
    /\ UNCHANGED pageVars

\* The fetch of the second listener comes back: a valid response is put
\* into the store CACHE_NAME.
SecondAnswer ==
    /\ fetchEvent.phase = "waiting"
    /\ fetchEvent.second = Pending
    /\ \E r \in Responses \cup {NetworkError} :
          /\ fetchEvent' = [fetchEvent EXCEPT
                               !.second = r,
                               !.put = IF validResponse(r) THEN r ELSE @,
                               !.phase = IF fetchEvent.first = Pending THEN "waiting" ELSE "done"]
          /\ stores' = IF validResponse(r)
                       THEN cachePut(stores, CACHE_NAME, {fetchEvent.url})
                       ELSE stores
    /\ UNCHANGED << worker, doomed, fetchCount, preexisting >>
    /\ UNCHANGED pageVars

\* The worker is registered in a browser that holds any stores.
InitWorker ==
    /\ InitPage("default", Capabilities)
    /\ worker = "parsed"
    /\ \E names \in SUBSET StoreNames : stores \in [names -> SUBSET Resources]
    /\ preexisting = DOMAIN stores
    /\ doomed = {}
    /\ fetchEvent = NoFetch
    /\ fetchCount = 0

NextWorker ==
    \/ Install
    \/ InstallFails
    \/ Activate
    \/ DeleteStore
    \/ FetchEvent
    \/ FirstAnswer
    \/ SecondAnswer

SpecWorker == InitWorker /\ [][NextWorker]_vars

\* The example session: the mode is chosen, the round is started once, every
\* callback runs at the time it is due, and the user answers the alert.
ChooseMode == roundStartTime = NULL /\ ToggleTestMode

StartRound == roundStartTime = NULL /\ Start

\* The time until the next callback is due.
TimeToNext ==
    LET lefts == {t.left : t \in intervals} \cup {e.left : e \in DOMAIN timeouts}
    IN  CHOOSE d \in lefts : \A x \in lefts : d <= x

\* The clock moves to the time the next callback is due, and no further.
NextDue ==
    /\ intervals # {} \/ DOMAIN timeouts # {}
    /\ advances < MaxExampleAdvances
    /\ Advance(TimeToNext)

NextExample ==
    \/ ChooseMode
    \/ StartRound
    \/ Dismiss
    \/ Backdrop
    \/ Snooze
    \/ Tick
    \/ AlertRepeat
    \/ SnoozeOver
    \/ SecondWave
    \/ NextDue

SpecExample == Init /\ [][NextExample]_vars

(***************************************************************************)
(* Properties.                                                             *)
(***************************************************************************)
SnoozeTimeouts == {e \in DOMAIN timeouts : e.fn = "snooze"}

LiveTicks == {t \in intervals : t.fn = "tick"}

Running == roundStartTime # NULL /\ ~isPaused

\* C1: Pressing Snooze on a raised alert and on every alert the previous
\* snooze re-raised, with no Dismiss in between: each of the first MAX_SNOOZES
\* presses takes the modal away and schedules a re-raise SNOOZE_MS later, and
\* the press after them takes the alert away and schedules no re-raise.
C1_SnoozeLimit ==
    lastOp.op = "snooze" =>
        /\ activeAlert = NoAlert
        /\ alertInterval = NULL
        /\ chain \in 1 .. MAX_SNOOZES =>
              \E e \in SnoozeTimeouts : e.src = "chain" /\ e.left = SNOOZE_MS
        /\ chain = MAX_SNOOZES + 1 =>
              ~ \E e \in SnoozeTimeouts : e.src = "chain"

\* C2: Once an alert is cleared, nothing of it sounds again: its repeat does
\* not run, and no second wave that one of its playbacks scheduled runs.
C2_SilentAfterDismiss ==
    /\ lastOp.op \in {"wave2", "vib2"} => lastOp.src # "gone"
    /\ lastOp.op = "repeat" => activeAlert # NoAlert

\* C3: Between the start that sets roundStartTime and the next reset,
\* updateTimerDisplay raises the alert at most once.
C3_RaisedOncePerRound == raises <= 1

\* C4: Starts and pauses with no reset or mode toggle in between keep
\* roundStartTime at the time of the first start, and a tick shows the time
\* that passed since the first start, pauses included.
C4_ElapsedSinceFirstStart ==
    /\ roundStartTime = firstStart
    /\ lastOp.op = "tick" => timerDisplay = ClockText(now - firstStart, 1)

C4_Witness ==
    /\ lastOp.op = "tick"
    /\ Running
    /\ sawPause
    /\ firstStart # NULL
    /\ now - firstStart >= 2 * TICK_MS
    /\ timerDisplay = ClockText(now - firstStart, 1)

\* The state of the timer and of the alert that a handler can change, apart
\* from the clock and the history.
PageState ==
    << timerInterval, roundStartTime, roundDurations, isPaused, isTestMode, activeAlert,
       alertInterval, modals, snoozeCount, currentRoundIndex, intervals, timeouts, timerDisplay,
       avgRoundTime, activeBtn, saveCalls >>

\* C5: finishRound of a started round writes roundDurations[currentRoundIndex]
\* = now - roundStartTime, leaves the other entries alone and calls the
\* persistence hook once; finishRound of an idle timer records nothing, does
\* not call the hook and changes no state.
C5_FinishRecordsOne ==
    [][ lastOp'.op = "finish" =>
          IF roundStartTime # NULL
          THEN /\ roundDurations' =
                     [roundDurations EXCEPT ![currentRoundIndex] = now - roundStartTime]
               /\ saveCalls' = saveCalls + 1
          ELSE UNCHANGED PageState ]_vars

C5_Witness ==
    /\ lastOp.op = "finish"
    /\ saveCalls = 2
    /\ roundDurations[currentRoundIndex] = now - roundStartTime
    /\ roundDurations[currentRoundIndex] > 0
    /\ \E i \in Rounds \ {currentRoundIndex} :
          roundDurations[i] > 0 /\ roundDurations[i] # roundDurations[currentRoundIndex]

\* C6: An entry of roundDurations that finishRound has recorded is never
\* changed afterwards.
C6_DurationsImmutable ==
    [][ \A i \in Rounds :
          roundDurations[i] # Hole => roundDurations'[i] = roundDurations[i] ]_vars

\* C7: The average shown is the mean of all the recorded durations, a
\* duration of 0 ms included, and it is the placeholder exactly when no
\* duration is recorded.
Recorded == {i \in Rounds : roundDurations[i] # Hole}

C7_AverageOfRecorded ==
    avgRoundTime # Unwritten =>
        avgRoundTime = IF Recorded = {} THEN "--:--"
                       ELSE ClockText(SumOver(roundDurations, Recorded), Cardinality(Recorded))

\* C8: A tick interval is live exactly when the timer is running, there is
\* never more than one, timerInterval is the id of the live one, and after
\* pause, reset, finish and mode toggle timerInterval is null and no tick is
\* scheduled.
C8_OneTickWhileRunning ==
    /\ LiveTicks # {} <=> Running
    /\ Cardinality(LiveTicks) <= 1
    /\ timerInterval # NULL <=> LiveTicks # {}
    /\ \A t \in LiveTicks : t.id = timerInterval
    /\ lastOp.op \in {"pause", "reset", "finish", "toggle"} =>
          timerInterval = NULL /\ LiveTicks = {}

C8_Witness ==
    /\ lastOp.op = "start"
    /\ roundStartTime # NULL
    /\ roundStartTime < now
    /\ Running
    /\ Cardinality(LiveTicks) = 1

\* C9: toggleTestMode flips the mode, so that the limit the next tick uses is
\* TEST_TIMER_LIMIT in test mode and NORMAL_TIMER_LIMIT otherwise, and leaves
\* the timer idle; a second toggle brings the first limit back.
C9_ToggleResets ==
    [][ lastOp'.op = "toggle" =>
          /\ isTestMode' = ~isTestMode
          /\ timerLimitSeconds(isTestMode') =
                IF isTestMode' THEN TEST_TIMER_LIMIT ELSE NORMAL_TIMER_LIMIT
          /\ timerLimitSeconds(isTestMode') # timerLimitSeconds(isTestMode)
          /\ timerLimitSeconds(~isTestMode') = timerLimitSeconds(isTestMode)
          /\ roundStartTime' = NULL
          /\ isPaused' = FALSE
          /\ timerInterval' = NULL
          /\ LiveTicks' = {} ]_vars

C9_Witness ==
    /\ lastOp.op = "toggle"
    /\ ~isTestMode
    /\ activeAlert = "test"
    /\ roundStartTime = NULL
    /\ LiveTicks = {}

\* C10: After the k-th Snooze press of a chain (k <= MAX_SNOOZES) snoozeCount
\* is k, while the re-raise is pending and after it; snoozeCount is always in
\* 0..MAX_SNOOZES.
C10_SnoozeCountCounts ==
    /\ snoozeCount \in 0 .. MAX_SNOOZES
    /\ chain \in 1 .. MAX_SNOOZES => snoozeCount = chain

\* C11: In test mode, with the round started once and every callback on time:
\* no alert is up before the limit, the tick at TEST_TIMER_LIMIT seconds
\* raises the alert, a Snooze pressed at time s leaves its re-raise pending
\* until s + SNOOZE_MS exactly with no alert up in between, and the re-raise
\* puts the alert up.
C11_ExampleTimes ==
    isTestMode =>
        /\ (firstStart # NULL /\ now - firstStart < TEST_TIMER_LIMIT * 1000)
              => activeAlert = NoAlert
        /\ (lastOp.op = "tick" /\ now - firstStart = TEST_TIMER_LIMIT * 1000)
              => activeAlert = "test"
        /\ \A e \in SnoozeTimeouts :
              /\ e.left = e.at + SNOOZE_MS - now
              /\ activeAlert = NoAlert
        /\ lastOp.op = "snoozeOver" => activeAlert = "test"

C11_Witness ==
    /\ isTestMode
    /\ lastOp.op = "snoozeOver"
    /\ activeAlert = "test"
    /\ now - firstStart = TEST_TIMER_LIMIT * 1000 + SNOOZE_MS

AlertRepeats == {t \in intervals : t.fn = "alert"}

\* C12: There is at most one alert modal and at most one live alert repeat
\* interval, alertInterval is set exactly when activeAlert is, and it is the
\* id of the live repeat: a raise over an alert that is up cancels the
\* repeat of that alert.
C12_OneAlert ==
    /\ modals = IF activeAlert # NoAlert THEN 1 ELSE 0
    /\ Cardinality(AlertRepeats) <= 1
    /\ alertInterval # NULL <=> activeAlert # NoAlert
    /\ \A t \in AlertRepeats : t.id = alertInterval

\* updateTimerDisplay, called by a second Start in the second of the limit,
\* raised the alert again at the instant the first one was cleared.
C12_Witness ==
    /\ lastOp.op = "start"
    /\ raises = 2
    /\ activeAlert # NoAlert
    /\ Cardinality(AlertRepeats) = 1
    /\ \E e \in DOMAIN timeouts : e.fn = "wave2" /\ e.src = "gone" /\ e.at = now

Titles == {"test", "normal", "enabled"}

\* C13: As long as the permission was never granted, notificationPermission is
\* false and showNotification is a no-op: it constructs no notification,
\* closes none, and leaves notificationPermission and activeNotification as
\* they are.
C13_NoOpWithoutPermission ==
    permission # "granted" =>
        /\ ~notificationPermission
        /\ activeNotification = NULL
        /\ shown = {}
        /\ \A title \in Titles : showNotification(Cur, title) = Cur

\* The permission was asked for and denied, and the tick at the limit has
\* called showTimerNotification.
C13_Witness ==
    /\ permission = "denied"
    /\ notificationBtn = "enabled"
    /\ lastOp.op = "tick"
    /\ raises = 1
    /\ activeAlert # NoAlert
    /\ created = 0

\* C14: At most one notification is on display, and it is the one the latest
\* call of showNotification constructed.
C14_OneNotification ==
    /\ Cardinality(shown) <= 1
    /\ \A n \in shown : n.id = activeNotification /\ n.id = created

\* The notification of the alert has taken the place of the one shown when
\* the permission was granted.
C14_Witness ==
    /\ created = 2
    /\ shown = {[id |-> 2, title |-> "test"]}
    /\ lastOp.op = "tick"
    /\ activeNotification = 2

\* The timer and alert state, with the timers that drive it: the live
\* intervals and the pending re-raises.
TimerView(s) ==
    << s.roundStartTime, s.isPaused, s.timerInterval, s.roundDurations, s.activeAlert,
       s.alertInterval, s.snoozeCount, s.intervals,
       [e \in {x \in DOMAIN s.timeouts : x.fn = "snooze"} |-> s.timeouts[e]] >>

\* start, pause, reset, finish, tick, raise, dismiss and snooze, run in state s
Handled(s) ==
    << startRoundTimer(s), pauseRoundTimer(s), resetRoundTimer(s), finishRound(s),
       updateTimerDisplay(s), showPersistentAlert(s, s.isTestMode),
       clearPersistentAlert(s), snoozeAlert(s) >>

\* C15: Whichever of audio, vibration and notification construction fail,
\* each of start, pause, reset, finish, tick, raise, dismiss and snooze
\* leaves the timer and alert state it leaves where all of them work.
C15_SameWithoutCapabilities ==
    LET here == Handled(Cur)
        working == Handled([Cur EXCEPT !.capable = Capabilities])
    IN  \A i \in DOMAIN here : TimerView(here[i]) = TimerView(working[i])

\* Nothing works; the tick at the limit raised the alert without a tone, a
\* vibration or a notification, and the alert was snoozed and came back.
C15_Witness ==
    /\ capable = {}
    /\ notificationPermission
    /\ lastOp.op = "snoozeOver"
    /\ activeAlert # NoAlert
    /\ alertInterval # NULL
    /\ raises = 1
    /\ created = 0
    /\ timeouts = EmptyBag

\* C16: A request for a resource that has a cached copy is answered with the
\* copy and nothing is fetched.  A request for one that has none is answered
\* with the response of the network, and when that response is valid (status
\* OK_STATUS, type 'basic') the resource has a copy in the store CACHE_NAME
\* afterwards; a response that is not valid is never put into a store.
C16_CacheFirst ==
    fetchEvent.phase = "done" =>
        IF fetchEvent.hit
        THEN fetchEvent.first = Unused /\ fetchEvent.second = Unused
        ELSE /\ validResponse(fetchEvent.first) =>
                    /\ CACHE_NAME \in DOMAIN stores
                    /\ fetchEvent.url \in stores[CACHE_NAME]
             /\ fetchEvent.put # Unused => validResponse(fetchEvent.put)

\* C17: When the activate listeners are done, every store with a name other
\* than CACHE_NAME is deleted and the store CACHE_NAME is there, whatever
\* stores there were before.
C17_ActivateDeletesOthers ==
    worker = "activated" => DOMAIN stores = {CACHE_NAME}

\* Every store there can be was there; the worker is activated.
C17_Witness ==
    /\ preexisting = StoreNames
    /\ worker = "activated"
    /\ DOMAIN stores = {CACHE_NAME}
    /\ fetchCount = 0

\* C18: A tick raises the alert exactly when it sees the elapsed time, in
\* whole seconds, equal to the limit; a tick that sees more than the limit,
\* because the ticks of the limit second were missed or the round was paused
\* across it, raises nothing and leaves the alert as it is.
C18_OnlyAtTheLimit ==
    [][ lastOp'.op = "tick" =>
          IF (now' - roundStartTime') \div 1000 = timerLimitSeconds(isTestMode')
          THEN /\ activeAlert' # NoAlert
               /\ raises' = IF raises < 2 THEN raises + 1 ELSE 2
          ELSE /\ activeAlert' = activeAlert
               /\ alertInterval' = alertInterval
               /\ raises' = raises ]_vars

\* The round was paused across the limit second; the tick after it sees more
\* than the limit and no alert was raised in the round.
C18_Witness ==
    /\ lastOp.op = "tick"
    /\ sawPause
    /\ isTestMode
    /\ now - roundStartTime > TEST_TIMER_LIMIT * 1000
    /\ raises = 0
    /\ activeAlert = NoAlert

\* C19: The alert that the re-raise of a snooze puts up has the mode of the
\* alert that was snoozed.
C19_SnoozedMode ==
    lastOp.op = "snoozeOver" => activeAlert = lastOp.mode

\* C20: Once an alert has been dismissed, with Dismiss or a confirmed click
\* on the backdrop, no alert is active until a call of updateTimerDisplay
\* sees the limit and raises one; the re-raise of an earlier snooze brings
\* none back.
C20_NoAlertAfterDismiss ==
    dismissed => activeAlert = NoAlert

\* C21: At any time at most one re-raise of a snooze is pending.
C21_OneSnoozePending ==
    SumOver(timeouts, SnoozeTimeouts) <= 1

\* C22: Reset, Pause and the test-mode toggle leave the alert as it is: the
\* alert on screen, its modal and its repeat interval, the snooze count and
\* the pending re-raises of snoozes are the same after the handler as before.
C22_AlertUntouched ==
    [][ lastOp'.op \in {"reset", "pause", "toggle"} =>
          /\ activeAlert' = activeAlert
          /\ modals' = modals
          /\ alertInterval' = alertInterval
          /\ AlertRepeats' = AlertRepeats
          /\ snoozeCount' = snoozeCount
          /\ SnoozeTimeouts' = SnoozeTimeouts
          /\ \A e \in SnoozeTimeouts : timeouts'[e] = timeouts[e] ]_vars

\* The mode was toggled while an alert was on screen, with its repeat
\* interval live, and the re-raise of an earlier snooze was pending.
C22_Witness ==
    /\ lastOp.op = "toggle"
    /\ activeAlert # NoAlert
    /\ AlertRepeats # {}
    /\ SnoozeTimeouts # {}

\* C23: finishRound of a started round leaves the timer paused, with no live
\* tick and roundStartTime as it was.  A start that finds roundStartTime set
\* keeps it, so until the next reset every tick shows, and every finish
\* records, the time since the first start.
C23_FinishKeepsTheClock ==
    [][ /\ (lastOp'.op = "finish" /\ roundStartTime # NULL) =>
              /\ isPaused'
              /\ timerInterval' = NULL
              /\ LiveTicks' = {}
              /\ roundStartTime' = roundStartTime
              /\ roundDurations'[currentRoundIndex'] = now' - firstStart'
        /\ (lastOp'.op = "start" /\ roundStartTime # NULL) =>
              /\ roundStartTime' = roundStartTime
              /\ ~isPaused'
              /\ LiveTicks' # {}
        /\ lastOp'.op = "tick" =>
              timerDisplay' = ClockText(now' - firstStart', 1) ]_vars

\* Round 0 was finished one second after the first start, which was made
\* when the page was loaded, so no reset came after that finish; the timer
\* was started again and round 1 is finished with three seconds, the time
\* since that same start.  The display shows those three seconds: the timer
\* was started after the first finish, which had cancelled the tick.
C23_Witness ==
    /\ lastOp.op = "finish"
    /\ firstStart = PageLoadTime
    /\ roundStartTime = firstStart
    /\ currentRoundIndex = 1
    /\ roundDurations[0] = TICK_MS
    /\ roundDurations[1] = 3 * TICK_MS
    /\ now - firstStart = 3 * TICK_MS
    /\ timerDisplay = ClockText(3 * TICK_MS, 1)
    /\ isPaused

====
